---- MODULE Spec2Model ----
(***************************************************************************)
(* Model of the facet-tx-worker fetch handler (src/src/index.ts), of its   *)
(* helper getFctMintRate (src/unnamed/part_001) and of the earlier handler *)
(* without mint accounting (src/unnamed/part_000).                         *)
(*                                                                         *)
(* A request is a small process: every `await` on an upstream provider is  *)
(* a step.  An action models the resumption after one awaited call: it     *)
(* consumes the provider's answer, runs the handler's code up to the next  *)
(* awaited call (which it issues) or up to the Response.                   *)
(*                                                                         *)
(* Bytes are integers 0..255, hex strings ("0x...") are byte sequences;    *)
(* the JavaScript length of a hex string is HexStrLen.  The L1 recipient   *)
(* is kept as its hex digits, one character per element, because its case *)
(* matters to the classifier.                                              *)
(***************************************************************************)
EXTENDS Integers, Sequences, FiniteSets, TLC

\* ------------------------------------------------------------------ bounds
\* Highest L2 head number a provider answers with.
MaxTip == 3
\* Timestamps lie around the multiples 0 .. MaxEpoch of the block period.
MaxEpoch == 4

\* ----------------------------------------------------------- program constants
L2_BLOCK_TIME == 12

\* Hex digits of FACET_INBOX_ADDRESS, in the casing of the source.
ZeroDigits(n) == [i \in 1..n |-> "0"]
FACET_INBOX_ADDRESS == ZeroDigits(35) \o <<"F", "a", "c", "E", "7">>

ZeroBytes(n) == [i \in 1..n |-> 0]
\* 0x00..00face7, 32 bytes.
FACET_EVENT_SIGNATURE == ZeroBytes(29) \o <<15, 172, 231>>

\* facetMainnet.id = 0xface7, facetSepolia.id = 0xface7a, as toHex() bytes.
FacetChainIdHex(l1ChainId) ==
    IF l1ChainId = 1 THEN <<15, 172, 231>> ELSE <<250, 206, 122>>

\* ------------------------------------------------------------ byte helpers
RECURSIVE NumberToBytes(_)
\* toHex(n) read back as bytes: minimal big-endian, 0 |-> one zero byte.
NumberToBytes(n) ==
    IF n < 256 THEN <<n>> ELSE NumberToBytes(n \div 256) \o <<n % 256>>

RECURSIVE BytesToNumber(_)
\* BigInt("0x..."): big-endian value of the bytes.
BytesToNumber(b) ==
    IF Len(b) = 0 THEN 0
    ELSE BytesToNumber(SubSeq(b, 1, Len(b) - 1)) * 256 + b[Len(b)]

\* JavaScript .length of the hex string holding b: "0x" plus two digits a byte.
HexStrLen(b) == 2 + 2 * Len(b)

RECURSIVE Flatten(_)
Flatten(ss) == IF Len(ss) = 0 THEN <<>> ELSE Head(ss) \o Flatten(Tail(ss))

\* String.prototype.toLowerCase on a sequence of hex digits.
LowerChar(c) ==
    CASE c = "A" -> "a" [] c = "B" -> "b" [] c = "C" -> "c"
      [] c = "D" -> "d" [] c = "E" -> "e" [] c = "F" -> "f"
      [] OTHER -> c
ToLowerCase(s) == [i \in DOMAIN s |-> LowerChar(s[i])]

\* ----------------------------------------------------------------- RLP
\* A decoded RLP item: a hex string (list = FALSE, bytes) or an array
\* (list = TRUE, items).  Both fields are always present.
HexItem(b) == [list |-> FALSE, bytes |-> b, items |-> <<>>]
ListItem(xs) == [list |-> TRUE, bytes |-> <<>>, items |-> xs]

RlpLengthPrefix(n, offset) ==
    IF n < 56 THEN <<offset + n>>
    ELSE LET l == NumberToBytes(n) IN <<offset + 55 + Len(l)>> \o l

RECURSIVE ToRlp(_)
\* viem toRlp.
ToRlp(item) ==
    IF item.list
    THEN LET body == Flatten([i \in DOMAIN item.items |-> ToRlp(item.items[i])])
         IN  RlpLengthPrefix(Len(body), 192) \o body
    ELSE IF Len(item.bytes) = 1 /\ item.bytes[1] < 128 THEN item.bytes
    ELSE RlpLengthPrefix(Len(item.bytes), 128) \o item.bytes

\* A cursor result: ok = FALSE models the thrown PositionOutOfBounds /
\* invalid-prefix error.
RlpThrow == [ok |-> FALSE, item |-> HexItem(<<>>), pos |-> 0]
RlpOk(item, pos) == [ok |-> TRUE, item |-> item, pos |-> pos]

\* readLength: the byte count announced by prefix, and the cursor after it.
\* pos is the index of the first byte after the prefix.
ReadLength(bytes, pos, prefix, offset) ==
    IF prefix <= offset + 55 THEN [ok |-> TRUE, len |-> prefix - offset, pos |-> pos]
    ELSE LET n == prefix - offset - 55 IN
         IF n > 4 \/ pos + n - 1 > Len(bytes)
         THEN [ok |-> FALSE, len |-> 0, pos |-> 0]
         ELSE [ok |-> TRUE,
               len |-> BytesToNumber(SubSeq(bytes, pos, pos + n - 1)),
               pos |-> pos + n]

RECURSIVE FromRlpCursor(_, _), ReadList(_, _, _, _)
\* fromRlpCursor: decode the item starting at index pos.
FromRlpCursor(bytes, pos) ==
    IF Len(bytes) = 0 THEN RlpOk(HexItem(<<>>), pos)
    ELSE IF pos > Len(bytes) THEN RlpThrow
    ELSE LET prefix == bytes[pos] IN
         IF prefix < 128 THEN RlpOk(HexItem(<<prefix>>), pos + 1)
         ELSE IF prefix < 192
         THEN LET l == ReadLength(bytes, pos + 1, prefix, 128) IN
              IF ~l.ok \/ l.pos + l.len - 1 > Len(bytes) THEN RlpThrow
              ELSE RlpOk(HexItem(SubSeq(bytes, l.pos, l.pos + l.len - 1)),
                         l.pos + l.len)
         ELSE LET l == ReadLength(bytes, pos + 1, prefix, 192) IN
              IF ~l.ok THEN RlpThrow
              ELSE ReadList(bytes, l.pos, l.pos + l.len, <<>>)

\* readList: items are read while the cursor is before the announced end.
ReadList(bytes, pos, end, acc) ==
    IF pos >= end THEN RlpOk(ListItem(acc), pos)
    ELSE LET r == FromRlpCursor(bytes, pos) IN
         IF ~r.ok THEN RlpThrow
         ELSE ReadList(bytes, r.pos, end, Append(acc, r.item))

\* viem fromRlp(hex): trailing bytes after the first item are ignored.
FromRlp(bytes) == FromRlpCursor(bytes, 1)

\* JavaScript payload.slice(4) then "0x" + ...: the hex string without its
\* first byte (of an empty string nothing is left).
SliceTag(payload) ==
    IF Len(payload) <= 1 THEN <<>> ELSE SubSeq(payload, 2, Len(payload))

\* ------------------------------------------------- SDK and viem primitives
\* calculateInputGasCost: intrinsic-calldata style, a charge per zero byte and
\* a larger one per non-zero byte.
ByteGasCost(b) == IF b = 0 THEN 4 ELSE 16

RECURSIVE CalculateInputGasCost(_)
CalculateInputGasCost(bytes) ==
    IF Len(bytes) = 0 THEN 0
    ELSE ByteGasCost(Head(bytes)) + CalculateInputGasCost(Tail(bytes))

\* The aliasing offset 0x1111000000000000000000000000000000001111.
AliasOffset == <<17, 17>> \o ZeroBytes(16) \o <<17, 17>>

RECURSIVE AddBytes(_, _, _, _)
\* Big-endian addition of two equally long byte strings from index i down,
\* the carry out of the top byte dropped (mod 2^(8*Len)).
AddBytes(a, b, i, carry) ==
    IF i = 0 THEN <<>>
    ELSE LET s == a[i] + b[i] + carry
         IN  AddBytes(a, b, i - 1, s \div 256) \o <<s % 256>>

\* applyL1ToL2Alias.
ApplyL1ToL2Alias(address) == AddBytes(address, AliasOffset, Len(address), 0)

\* computeFacetTransactionHash: an injective function of its seven arguments,
\* kept as the tuple of them.
ComputeFacetTransactionHash(l1Hash, from, to, value, data, gasLimit, mint) ==
    [l1TransactionHash |-> l1Hash, fromAddress |-> from, to |-> to,
     value |-> value, data |-> data, gasLimit |-> gasLimit,
     fctMintAmount |-> mint]

\* An optional hex value of the handler: `undefined` or bytes.
Undefined == [undefined |-> TRUE, bytes |-> <<>>]
Defined(b) == [undefined |-> FALSE, bytes |-> b]
\* x ?? "0x"
OrEmpty(x) == IF x.undefined THEN <<>> ELSE x.bytes

\* ------------------------------------------------------------- classifier
\* transaction.to?.toLowerCase() === FACET_INBOX_ADDRESS.toLowerCase()
\* A recipient is [null, s]: null for a contract creation, else its digits.
IsInboxRecipientExact(to) == ~to.null /\ to.s = FACET_INBOX_ADDRESS
IsInboxRecipient(to) ==
    ~to.null /\ ToLowerCase(to.s) = ToLowerCase(FACET_INBOX_ADDRESS)

\* ----------------------------------------------------------- event decoder
IsFacetLogAnyTopics(log) ==
    Len(log.topics) >= 1 /\ log.topics[1] = FACET_EVENT_SIGNATURE
\* log.topics.length === 1 && log.topics[0] === FACET_EVENT_SIGNATURE
IsFacetLog(log) ==
    Len(log.topics) = 1 /\ log.topics[1] = FACET_EVENT_SIGNATURE

\* receipt.logs.find(...): index of the first matching log, 0 for undefined.
FindFacetEvent(logs) ==
    IF \E i \in DOMAIN logs : IsFacetLog(logs[i])
    THEN CHOOSE i \in DOMAIN logs :
            IsFacetLog(logs[i]) /\ \A j \in 1..(i - 1) : ~IsFacetLog(logs[j])
    ELSE 0

\* decoded[i].length of a decoded item: characters of a hex string, elements
\* of an array.
JsLength(item) == IF item.list THEN Len(item.items) ELSE HexStrLen(item.bytes)

ToOfElementByteLen(item) ==
    IF ~item.list /\ Len(item.bytes) <= 1 THEN Undefined ELSE Defined(item.bytes)
\* to = toAddressBytes.length <= 2 ? undefined : toAddressBytes
\* (an array of more than two items would be passed on as it is; the payloads
\* below hold no such element [1])
ToOfElement(item) ==
    IF JsLength(item) <= 2 THEN Undefined ELSE Defined(item.bytes)

\* valueHex && valueHex !== '0x' ? BigInt(valueHex) : 0n
BigIntOrZero(item) ==
    IF Len(item.bytes) # 0 THEN BytesToNumber(item.bytes) ELSE 0

EventInputCostIntrinsic(payload) == CalculateInputGasCost(payload)
\* BigInt(toBytes(payload).byteLength) * 8n
EventInputCost(payload) == Len(payload) * 8

\* The outcome of a derivation: thrown (caught by the handler's catch) or the
\* fields handed to the hash.
NoFields == [to |-> Undefined, value |-> 0, data |-> <<>>, gasLimit |-> 0,
             fctMintAmount |-> 0]
Thrown(msg) == [ok |-> FALSE, error |-> msg, fields |-> NoFields]
Derived(to, value, data, gasLimit, mint) ==
    [ok |-> TRUE, error |-> "",
     fields |-> [to |-> to, value |-> value, data |-> data,
                 gasLimit |-> gasLimit, fctMintAmount |-> mint]]

\* Lines 131-161: from the matched log's data to the canonical fields.
DecodeFacetEvent(payload, fctMintRate) ==
    LET decoded == FromRlp(SliceTag(payload)) IN
    IF ~decoded.ok THEN Thrown("rlp decoding failed")
    ELSE IF ~decoded.item.list \/ Len(decoded.item.items) < 6
    THEN Thrown("Invalid RLP data in Facet event")
    ELSE LET d == decoded.item.items IN
         Derived(ToOfElement(d[2]), BigIntOrZero(d[3]), d[5].bytes,
                 BigIntOrZero(d[4]), EventInputCost(payload) * fctMintRate)

\* ---------------------------------------------------------- direct decoder
\* decodeFacetEncodedTransaction: tag byte 70 and an RLP list of six hex
\* items [chainId, to, value, gasLimit, data, mineBoost].
DecodeFacetEncodedTransaction(input) ==
    LET decoded == FromRlp(SliceTag(input))
        wellFormed ==
            /\ Len(input) >= 1 /\ input[1] = 70
            /\ decoded.ok /\ decoded.item.list
            /\ Len(decoded.item.items) = 6
            /\ \A i \in 1..6 : ~decoded.item.items[i].list
        d == decoded.item.items
    IN  IF ~wellFormed
        THEN [ok |-> FALSE, to |-> Undefined, value |-> 0, data |-> <<>>,
              gasLimit |-> 0, mineBoost |-> Undefined]
        ELSE [ok |-> TRUE,
              to |-> IF Len(d[2].bytes) = 0 THEN Undefined ELSE Defined(d[2].bytes),
              value |-> BytesToNumber(d[3].bytes),
              data |-> d[5].bytes,
              gasLimit |-> BytesToNumber(d[4].bytes),
              mineBoost |-> IF Len(d[6].bytes) = 0 THEN Undefined
                            ELSE Defined(d[6].bytes)]

\* x ? toHex(x) : "0x" for a bigint x.
NumberOrEmpty(n) == IF n # 0 THEN NumberToBytes(n) ELSE <<>>

\* Lines 94-103: concatHex([toHex(70), toRlp(transactionData)]).
EncodedTransaction(l1ChainId, dec) ==
    <<70>> \o ToRlp(ListItem(<<HexItem(FacetChainIdHex(l1ChainId)),
                               HexItem(OrEmpty(dec.to)),
                               HexItem(NumberOrEmpty(dec.value)),
                               HexItem(NumberOrEmpty(dec.gasLimit)),
                               HexItem(dec.data),
                               HexItem(OrEmpty(dec.mineBoost))>>))

\* calculateInputGasCost(toBytes(encodedTransaction))
DirectInputCost(l1ChainId, dec) ==
    CalculateInputGasCost(EncodedTransaction(l1ChainId, dec))

\* Lines 85-105.
DecodeDirect(input, l1ChainId, fctMintRate) ==
    LET dec == DecodeFacetEncodedTransaction(input) IN
    IF ~dec.ok THEN Thrown("Invalid Facet encoded transaction")
    ELSE Derived(dec.to, dec.value, dec.data, dec.gasLimit,
                 DirectInputCost(l1ChainId, dec) * fctMintRate)

\* ----------------------------------------------------------- rate lookup
TargetBlockWrongPeriod(latestNumber, latestTimestamp, l1Timestamp) ==
    latestNumber - ((latestTimestamp - l1Timestamp) \div (L2_BLOCK_TIME + 1))
\* Rounding towards zero instead of towards minus infinity.
TargetBlockTruncating(latestNumber, latestTimestamp, l1Timestamp) ==
    LET diff == latestTimestamp - l1Timestamp
    IN  IF diff >= 0 THEN latestNumber - (diff \div L2_BLOCK_TIME)
        ELSE latestNumber + ((0 - diff) \div L2_BLOCK_TIME)
\* Lines 61-67: latestL2BlockNumber - BigInt(Math.floor(timeDiff / 12)).
\* \div rounds towards minus infinity, as Math.floor does.
TargetL2BlockNumber(latestNumber, latestTimestamp, l1Timestamp) ==
    latestNumber - ((latestTimestamp - l1Timestamp) \div L2_BLOCK_TIME)

\* --------------------------------------------------------- the L1 world
\* Addresses are 20 bytes.
Addr(n) == ZeroBytes(19) \o <<n>>
AddrA == [i \in 1..20 |-> 170]
\* An address whose alias wraps around 2^160.
AddrHigh == <<255>> \o ZeroBytes(18) \o <<240>>

Recipient(s) == [null |-> FALSE, s |-> s]
NoRecipient == [null |-> TRUE, s |-> <<>>]
InboxLower == Recipient(ToLowerCase(FACET_INBOX_ADDRESS))
InboxSource == Recipient(FACET_INBOX_ADDRESS)
InboxUpper == Recipient(ZeroDigits(35) \o <<"F", "A", "C", "E", "7">>)
\* One digit away from the inbox.
NearInbox == Recipient(ZeroDigits(35) \o <<"F", "a", "c", "E", "8">>)
SomeContract == Recipient(ZeroDigits(36) \o <<"b", "e", "e", "f">>)

H(b) == HexItem(b)
Envelope(tag, items) == <<tag>> \o ToRlp(ListItem(items))

\* Inbox inputs.
InputCall == Envelope(70, <<H(<<15, 172, 231>>), H(AddrA), H(<<3, 232>>),
                            H(<<82, 8>>), H(<<>>), H(<<>>)>>)
InputCreate == Envelope(70, <<H(<<15, 172, 231>>), H(<<>>), H(<<>>),
                              H(<<82, 8>>), H(<<0, 1, 0>>), H(<<7>>)>>)
InputSepolia == Envelope(70, <<H(<<250, 206, 122>>), H(AddrA), H(<<>>),
                               H(<<82, 8>>), H(<<0, 0, 0, 0>>), H(<<>>)>>)
InputMalformed == <<70, 1, 2>>

\* Log payloads.
PayloadB == Envelope(70, <<H(<<1>>), H(<<>>), H(<<>>), H(<<82, 8>>),
                           H(<<171, 205, 239>>), H(<<>>)>>)
PayloadZeros == Envelope(70, <<H(<<1>>), H(<<>>), H(<<>>), H(<<82, 8>>),
                               H(<<0, 0, 0>>), H(<<>>)>>)
PayloadCall == Envelope(70, <<H(<<15, 172, 231>>), H(AddrA), H(<<3, 232>>),
                              H(<<82, 8>>), H(<<0, 0, 1>>), H(<<>>)>>)
PayloadToOneByte == Envelope(70, <<H(<<1>>), H(<<5>>), H(<<1>>), H(<<>>),
                                   H(<<>>), H(<<>>)>>)
PayloadToZeroByte == Envelope(70, <<H(<<1>>), H(<<0>>), H(<<>>), H(<<9>>),
                                    H(<<>>), H(<<>>)>>)
PayloadToHighByte == Envelope(70, <<H(<<1>>), H(<<200>>), H(<<>>), H(<<9>>),
                                    H(<<>>), H(<<>>)>>)
PayloadToEmptyList == Envelope(70, <<H(<<1>>), ListItem(<<>>), H(<<>>), H(<<9>>),
                                     H(<<1>>), H(<<>>)>>)
PayloadSeven == Envelope(1, <<ListItem(<<H(<<1>>)>>), H(AddrA), H(<<2>>),
                              H(<<82, 8>>), H(<<>>), ListItem(<<>>), H(<<9, 9>>)>>)
PayloadFive == Envelope(70, <<H(<<1>>), H(AddrA), H(<<>>), H(<<82, 8>>), H(<<>>)>>)
PayloadString == <<70>> \o ToRlp(H(<<1, 2, 3>>))
PayloadTagOnly == <<70>>
PayloadEmpty == <<>>
PayloadTruncated == <<70, 197, 1>>

Log(address, topics, data) ==
    [address |-> address, topics |-> topics, data |-> data]
OtherTopic == ZeroBytes(31) \o <<1>>
FacetLog(address, data) == Log(address, <<FACET_EVENT_SIGNATURE>>, data)

Tx(chain, to, input, logs) ==
    [chain |-> chain, to |-> to, from |-> Addr(1), input |-> input, logs |-> logs]

\* The transactions of the two L1 networks, by kind.
TxKinds ==
    << Tx(1, InboxSource, InputCall, <<>>),
       Tx(1, InboxLower, InputCreate, <<FacetLog(Addr(2), PayloadB)>>),
       Tx(1, InboxUpper, InputMalformed, <<>>),
       Tx(11155111, InboxLower, InputSepolia, <<>>),
       Tx(1, SomeContract, <<>>,
          <<Log(Addr(3), <<FACET_EVENT_SIGNATURE, OtherTopic>>, PayloadCall),
            Log(Addr(3), <<OtherTopic>>, PayloadCall),
            FacetLog(Addr(4), PayloadB),
            FacetLog(Addr(5), PayloadCall)>>),
       Tx(1, NoRecipient, InputCall, <<FacetLog(AddrHigh, PayloadCall)>>),
       Tx(1, NearInbox, InputCall, <<>>),
       Tx(1, SomeContract, <<>>,
          <<Log(Addr(3), <<>>, PayloadB),
            Log(Addr(3), <<FACET_EVENT_SIGNATURE, FACET_EVENT_SIGNATURE>>, PayloadB)>>),
       Tx(1, SomeContract, <<>>, <<FacetLog(Addr(2), PayloadZeros)>>),
       Tx(1, SomeContract, <<>>, <<FacetLog(Addr(2), PayloadToOneByte)>>),
       Tx(1, SomeContract, <<>>, <<FacetLog(Addr(2), PayloadToZeroByte)>>),
       Tx(1, SomeContract, <<>>, <<FacetLog(Addr(2), PayloadToHighByte)>>),
       Tx(1, SomeContract, <<>>, <<FacetLog(Addr(2), PayloadToEmptyList)>>),
       Tx(11155111, SomeContract, <<>>, <<FacetLog(Addr(2), PayloadSeven)>>),
       Tx(1, SomeContract, <<>>, <<FacetLog(Addr(2), PayloadFive)>>),
       Tx(1, SomeContract, <<>>, <<FacetLog(Addr(2), PayloadString)>>),
       Tx(1, SomeContract, <<>>, <<FacetLog(Addr(2), PayloadTagOnly)>>),
       Tx(1, SomeContract, <<>>, <<FacetLog(Addr(2), PayloadEmpty)>>),
       Tx(1, SomeContract, <<>>, <<FacetLog(Addr(2), PayloadTruncated)>>) >>

\* Block timestamps: every multiple of the block period and the second before
\* the next one, so that differences fall on, just below and just above the
\* multiples.
Timestamps ==
    {L2_BLOCK_TIME * k + d : k \in 0..MaxEpoch, d \in {0, L2_BLOCK_TIME - 1}}

\* A transaction hash names the kind of the transaction and the timestamp of
\* its block; <<0, 0>> is a hash no network knows, <<>> the empty string.
KnownHashes == {<<k, t>> : k \in DOMAIN TxKinds, t \in Timestamps}
UnknownHash == <<0, 0>>
OnChain(hash, l1ChainId) ==
    hash \in KnownHashes /\ TxKinds[hash[1]].chain = l1ChainId
BlockTimestamp(hash) == hash[2]

\* L2 heads a provider may answer with.
L2Head(n, t) == [number |-> n, timestamp |-> t]
AllHeads == {L2Head(n, t) : n \in 0..MaxTip, t \in Timestamps}
\* The heads of a chain whose blocks are exactly one block period apart.
RegularHeads(genesis) ==
    {L2Head(n, genesis + L2_BLOCK_TIME * n) : n \in 0..MaxTip}

\* fctMintRate() in the state of L2 block n: it drifts from block to block.
RateAt(l1ChainId, n) == (IF l1ChainId = 1 THEN 100 ELSE 50) + 3 * n

\* ------------------------------------------------------------ the request
\* url.searchParams.get(name): absent (null) or a string.
Param(present, str) == [present |-> present, s |-> str]
TxHashParams ==
    {Param(FALSE, <<>>), Param(TRUE, <<>>), Param(TRUE, UnknownHash)}
        \cup {Param(TRUE, h) : h \in KnownHashes}
ChainIdStrings == {"", "0", "1", "11155111", "5", "abc", "0x1", "-1"}
ChainIdParams ==
    {Param(FALSE, "")} \cup {Param(TRUE, c) : c \in ChainIdStrings}

\* Number(x) of a query parameter: NaN or an integer.
NaN == [nan |-> TRUE, n |-> 0]
Num(n) == [nan |-> FALSE, n |-> n]
JsNumber(param) ==
    IF ~param.present THEN Num(0)
    ELSE CASE param.s = "" -> Num(0)
           [] param.s = "0" -> Num(0)
           [] param.s = "1" -> Num(1)
           [] param.s = "0x1" -> Num(1)
           [] param.s = "11155111" -> Num(11155111)
           [] param.s = "5" -> Num(5)
           [] param.s = "-1" -> Num(-1)
           [] OTHER -> NaN

\* !l1TransactionHash: null and the empty string are falsy.
FalsyHash(param) == ~param.present \/ Len(param.s) = 0
\* !l1ChainId: 0 and NaN are falsy.
FalsyNumber(x) == x.nan \/ x.n = 0

IsSupportedChainLoose(n) == n = 1 \/ n = 11155111 \/ n = 5
\* !(l1ChainId !== 1 && l1ChainId !== 11155111)
IsSupportedChain(n) == n = 1 \/ n = 11155111

Reqs == {1, 2}
Calls == {"getTransaction", "l1GetBlock", "l2GetBlock", "readContract",
          "getTransactionReceipt", "l2GetTransaction"}

VARIABLES
    pc,             \* per request: "idle", the awaited upstream call, or "done"
    locals,         \* per request: the handler's local variables
    response,       \* per request: the Response returned
    calls,          \* per request: how often each upstream call was issued
    upstreamFailed, \* per request: an upstream call has thrown
    l2Genesis       \* timestamp of L2 block 0 of a regularly spaced L2 chain

vars == <<pc, locals, response, calls, upstreamFailed, l2Genesis>>

NoTx == Tx(0, NoRecipient, <<>>, <<>>)
NoLog == Log(<<>>, <<>>, <<>>)
NoReceipt == [present |-> FALSE, logs |-> <<>>]
Receipt(logs) == [present |-> TRUE, logs |-> logs]
NoHash == ComputeFacetTransactionHash(<<>>, <<>>, <<>>, 0, <<>>, 0, 0)
NoResponse == [status |-> 0, error |-> "", hasHash |-> FALSE,
               facetTransactionHash |-> NoHash]

InitLocals ==
    [worker |-> "index", \* "index": src/src/index.ts; "part_000": the handler
                         \* without mint accounting that looks the result up on L2
     url |-> [txHash |-> Param(FALSE, <<>>), chainId |-> Param(FALSE, "")],
     l1TransactionHash |-> <<>>, l1ChainId |-> Num(0), transaction |-> NoTx,
     l1Timestamp |-> 0, latestL2Block |-> L2Head(0, 0),
     targetL2BlockNumber |-> 0, fctMintRate |-> 0, branch |-> "none",
     receipt |-> NoReceipt, facetEvent |-> NoLog, fromAddress |-> <<>>,
     fields |-> NoFields]

InitRequests ==
    /\ pc = [r \in Reqs |-> "idle"]
    /\ locals = [r \in Reqs |-> InitLocals]
    /\ response = [r \in Reqs |-> NoResponse]
    /\ calls = [r \in Reqs |-> [c \in Calls |-> 0]]
    /\ upstreamFailed = [r \in Reqs |-> FALSE]

Init == InitRequests /\ l2Genesis = 0

\* return new Response(JSON.stringify({ error }), { status })
Respond(r, status, error) ==
    /\ response' = [response EXCEPT ![r] =
           [status |-> status, error |-> error, hasHash |-> FALSE,
            facetTransactionHash |-> NoHash]]
    /\ pc' = [pc EXCEPT ![r] = "done"]
    /\ UNCHANGED calls

\* return new Response(JSON.stringify({ facetTransactionHash }))
Succeed(r, hash) ==
    /\ response' = [response EXCEPT ![r] =
           [status |-> 200, error |-> "", hasHash |-> TRUE,
            facetTransactionHash |-> hash]]
    /\ pc' = [pc EXCEPT ![r] = "done"]
    /\ UNCHANGED calls

\* The handler reaches `await <call>`: the call goes out.
Issue(r, call) ==
    /\ pc' = [pc EXCEPT ![r] = call]
    /\ calls' = [calls EXCEPT ![r][call] = @ + 1]
    /\ UNCHANGED response

CatchAndRetry(r, message) == Issue(r, pc[r])
\* catch (error) { return new Response({ error: error.message }, 500) }
Catch(r, message) == Respond(r, 500, message)

\* The awaited upstream call rejects.
UpstreamFailure(r) ==
    /\ upstreamFailed' = [upstreamFailed EXCEPT ![r] = TRUE]
    /\ Catch(r, "upstream request failed")
    /\ UNCHANGED locals

\* The request arrives: parameters are read and validated, the clients set
\* up, getTransaction issued.  Both handlers start alike.
HandleRequest(r, worker, txHash, chainId) ==
    /\ pc[r] = "idle"
    /\ LET l1ChainId == JsNumber(chainId) IN
       /\ locals' = [locals EXCEPT
              ![r].worker = worker,
              ![r].url = [txHash |-> txHash, chainId |-> chainId],
              ![r].l1TransactionHash = txHash.s,
              ![r].l1ChainId = l1ChainId]
       /\ IF FalsyHash(txHash) \/ FalsyNumber(l1ChainId)
          THEN Respond(r, 400, "Missing txHash or chainId")
          ELSE IF ~IsSupportedChain(l1ChainId.n)
          THEN Respond(r, 400, "Invalid chainId")
          ELSE Issue(r, "getTransaction")
    /\ UNCHANGED <<upstreamFailed, l2Genesis>>

\* index.ts lines 16-43.
Fetch(r, txHash, chainId) == HandleRequest(r, "index", txHash, chainId)

\* Lines 41-52: getTransaction answers.
GetTransaction(r) ==
    /\ pc[r] = "getTransaction"
    /\ locals[r].worker = "index"
    /\ LET hash == locals[r].l1TransactionHash
           chain == locals[r].l1ChainId.n
       IN  \/ /\ OnChain(hash, chain)
              /\ locals' = [locals EXCEPT ![r].transaction = TxKinds[hash[1]]]
              /\ Issue(r, "l1GetBlock")
              /\ UNCHANGED upstreamFailed
           \/ /\ ~OnChain(hash, chain)
              /\ Respond(r, 404, "Transaction not found")
              /\ UNCHANGED <<locals, upstreamFailed>>
           \/ UpstreamFailure(r)
    /\ UNCHANGED l2Genesis

\* Lines 50-55: the L1 block answers.
L1GetBlock(r) ==
    /\ pc[r] = "l1GetBlock"
    /\ \/ /\ locals' = [locals EXCEPT ![r].l1Timestamp =
                            BlockTimestamp(locals[r].l1TransactionHash)]
          /\ Issue(r, "l2GetBlock")
          /\ UNCHANGED upstreamFailed
       \/ UpstreamFailure(r)
    /\ UNCHANGED l2Genesis

\* Lines 55-73 and getFctMintRate up to its readContract: the L2 head answers.
L2GetBlock(r, heads) ==
    /\ pc[r] = "l2GetBlock"
    /\ \/ \E head \in heads :
            /\ locals' = [locals EXCEPT
                   ![r].latestL2Block = head,
                   ![r].targetL2BlockNumber =
                       TargetL2BlockNumber(head.number, head.timestamp,
                                           locals[r].l1Timestamp)]
            /\ Issue(r, "readContract")
            /\ UNCHANGED upstreamFailed
       \/ UpstreamFailure(r)
    /\ UNCHANGED l2Genesis

\* The provider reads state only at a block of the chain it knows.
BlockExists(n, head) == 0 <= n /\ n <= head.number

\* getFctMintRate: blockNumber !== undefined ? BigInt(blockNumber) : undefined,
\* the block the state read is made at (BigInt of a bigint is that bigint).
ReadContractBlock(blockNumber) == blockNumber

\* Lines 70-111 and 164-179: readContract answers; the transaction is
\* classified, and the inbox case runs to the Response.
GetFctMintRate(r) ==
    /\ pc[r] = "readContract"
    /\ LET l == locals[r]
           chain == l.l1ChainId.n
           block == ReadContractBlock(l.targetL2BlockNumber)
           rate == RateAt(chain, block)
           d == DecodeDirect(l.transaction.input, chain, rate)
       IN  \/ /\ BlockExists(block, l.latestL2Block)
              /\ UNCHANGED upstreamFailed
              /\ IF IsInboxRecipient(l.transaction.to)
                 THEN /\ locals' = [locals EXCEPT
                             ![r].fctMintRate = rate,
                             ![r].branch = "Direct",
                             ![r].fromAddress = l.transaction.from,
                             ![r].fields = d.fields]
                      /\ IF ~d.ok THEN Catch(r, d.error)
                         ELSE Succeed(r, ComputeFacetTransactionHash(
                                  l.l1TransactionHash, l.transaction.from,
                                  OrEmpty(d.fields.to), d.fields.value,
                                  d.fields.data, d.fields.gasLimit,
                                  d.fields.fctMintAmount))
                 ELSE /\ locals' = [locals EXCEPT
                             ![r].fctMintRate = rate,
                             ![r].branch = "ContractEvent"]
                      /\ Issue(r, "getTransactionReceipt")
           \/ UpstreamFailure(r)
    /\ UNCHANGED l2Genesis

\* Lines 109-179: the receipt answers; the contract case runs to the Response.
GetTransactionReceipt(r) ==
    /\ pc[r] = "getTransactionReceipt"
    /\ locals[r].worker = "index"
    /\ LET l == locals[r]
           logs == l.transaction.logs
           i == FindFacetEvent(logs)
       IN  \/ /\ i = 0
              /\ Respond(r, 400, "No Facet event found in transaction")
              /\ locals' = [locals EXCEPT ![r].receipt = Receipt(logs)]
              /\ UNCHANGED upstreamFailed
           \/ /\ i # 0
              /\ UNCHANGED upstreamFailed
              /\ LET facetEvent == logs[i]
                     fromAddress == ApplyL1ToL2Alias(facetEvent.address)
                     d == DecodeFacetEvent(facetEvent.data, l.fctMintRate)
                 IN  /\ locals' = [locals EXCEPT
                            ![r].receipt = Receipt(logs),
                            ![r].facetEvent = facetEvent,
                            ![r].fromAddress = fromAddress,
                            ![r].fields = d.fields]
                     /\ IF ~d.ok THEN Catch(r, d.error)
                        ELSE Succeed(r, ComputeFacetTransactionHash(
                                 l.l1TransactionHash, fromAddress,
                                 OrEmpty(d.fields.to), d.fields.value,
                                 d.fields.data, d.fields.gasLimit,
                                 d.fields.fctMintAmount))
           \/ UpstreamFailure(r)
    /\ UNCHANGED l2Genesis

\* ------------------------------------------- the handler of part_000
\* computeFacetTransactionHash of the SDK this handler was written against:
\* six arguments, no mint amount.
ComputeFacetTransactionHashNoMint(l1Hash, from, to, value, data, gasLimit) ==
    ComputeFacetTransactionHash(l1Hash, from, to, value, data, gasLimit, 0)

\* part_000 lines 11-38.
VerifyingFetch(r, txHash, chainId) ==
    HandleRequest(r, "part_000", txHash, chainId)

\* part_000 lines 36-63 and 104-118: getTransaction answers; the transaction
\* is classified, and the inbox case runs to the L2 lookup.
VerifyingGetTransaction(r) ==
    /\ pc[r] = "getTransaction"
    /\ locals[r].worker = "part_000"
    /\ LET hash == locals[r].l1TransactionHash
           chain == locals[r].l1ChainId.n
           tx == TxKinds[hash[1]]
           dec == DecodeFacetEncodedTransaction(tx.input)
       IN  \/ /\ OnChain(hash, chain)
              /\ UNCHANGED upstreamFailed
              /\ IF IsInboxRecipient(tx.to)
                 THEN /\ locals' = [locals EXCEPT
                             ![r].transaction = tx,
                             ![r].branch = "Direct",
                             ![r].fromAddress = tx.from,
                             ![r].fields = Derived(dec.to, dec.value, dec.data,
                                                   dec.gasLimit, 0).fields]
                      /\ IF ~dec.ok
                         THEN Catch(r, "Invalid Facet encoded transaction")
                         ELSE Issue(r, "l2GetTransaction")
                 ELSE /\ locals' = [locals EXCEPT
                             ![r].transaction = tx,
                             ![r].branch = "ContractEvent"]
                      /\ Issue(r, "getTransactionReceipt")
           \/ /\ ~OnChain(hash, chain)
              /\ Respond(r, 404, "Transaction not found")
              /\ UNCHANGED <<locals, upstreamFailed>>
           \/ UpstreamFailure(r)
    /\ UNCHANGED l2Genesis

\* part_000 lines 61-118: the receipt answers; the contract case runs to the
\* L2 lookup.
VerifyingGetTransactionReceipt(r) ==
    /\ pc[r] = "getTransactionReceipt"
    /\ locals[r].worker = "part_000"
    /\ LET l == locals[r]
           logs == l.transaction.logs
           i == FindFacetEvent(logs)
       IN  \/ /\ i = 0
              /\ Respond(r, 400, "No Facet event found in transaction")
              /\ locals' = [locals EXCEPT ![r].receipt = Receipt(logs)]
              /\ UNCHANGED upstreamFailed
           \/ /\ i # 0
              /\ UNCHANGED upstreamFailed
              /\ LET facetEvent == logs[i]
                     d == DecodeFacetEvent(facetEvent.data, 0)
                 IN  /\ locals' = [locals EXCEPT
                            ![r].receipt = Receipt(logs),
                            ![r].facetEvent = facetEvent,
                            ![r].fromAddress = ApplyL1ToL2Alias(facetEvent.address),
                            ![r].fields = d.fields]
                     /\ IF ~d.ok THEN Catch(r, d.error)
                        ELSE Issue(r, "l2GetTransaction")
           \/ UpstreamFailure(r)
    /\ UNCHANGED l2Genesis

\* part_000 lines 115-134: the L2 lookup of the derived hash answers; a
\* rejection and a null are both answered 404.
L2GetTransaction(r) ==
    /\ pc[r] = "l2GetTransaction"
    /\ LET l == locals[r] IN
       \/ /\ Succeed(r, ComputeFacetTransactionHashNoMint(
                   l.l1TransactionHash, l.fromAddress, OrEmpty(l.fields.to),
                   l.fields.value, l.fields.data, l.fields.gasLimit))
          /\ UNCHANGED upstreamFailed
       \/ /\ Respond(r, 404, "Facet transaction not found")
          /\ UNCHANGED upstreamFailed
       \/ /\ Respond(r, 404, "Facet transaction not found")
          /\ upstreamFailed' = [upstreamFailed EXCEPT ![r] = TRUE]
    /\ UNCHANGED <<locals, l2Genesis>>

\* One request to either handler, any parameters, any L2 head.
Next ==
    \/ \E txHash \in TxHashParams, chainId \in ChainIdParams :
           Fetch(1, txHash, chainId)
    \/ \E txHash \in TxHashParams, chainId \in ChainIdParams :
           VerifyingFetch(1, txHash, chainId)
    \/ VerifyingGetTransaction(1)
    \/ VerifyingGetTransactionReceipt(1)
    \/ L2GetTransaction(1)
    \/ GetTransaction(1)
    \/ L1GetBlock(1)
    \/ L2GetBlock(1, AllHeads)
    \/ GetFctMintRate(1)
    \/ GetTransactionReceipt(1)

Spec == Init /\ [][Next]_vars

\* Two requests for one source transaction, served while the L2 chain, whose
\* blocks are exactly one block period apart, is at any of its heads.
PairInit == InitRequests /\ l2Genesis \in {0, 7, L2_BLOCK_TIME + 1}

PairKinds == {1, 5}
PairHashParams == {Param(TRUE, <<k, t>>) : k \in PairKinds, t \in Timestamps}

SameSource(r, q) ==
    /\ locals[r].l1TransactionHash = locals[q].l1TransactionHash
    /\ locals[r].l1ChainId = locals[q].l1ChainId

PairFetch(r) ==
    \E txHash \in PairHashParams :
        /\ \A q \in Reqs \ {r} :
               pc[q] # "idle" => locals[q].l1TransactionHash = txHash.s
        /\ Fetch(r, txHash, Param(TRUE, "1"))

PairNext ==
    \E r \in Reqs :
        \/ PairFetch(r)
        \/ GetTransaction(r)
        \/ L1GetBlock(r)
        \/ L2GetBlock(r, RegularHeads(l2Genesis))
        \/ GetFctMintRate(r)
        \/ GetTransactionReceipt(r)

PairSpec == PairInit /\ [][PairNext]_vars

\* ================================================================ claims
Started(r) == pc[r] # "idle"
Done(r) == pc[r] = "done"
\* The receipt was asked for and came back.
ReceiptObtained(r) == locals[r].receipt.present
InboxDigitsLower == ZeroDigits(35) \o <<"f", "a", "c", "e", "7">>
MatchesSentinel(log) ==
    Len(log.topics) = 1 /\ log.topics[1] = ZeroBytes(29) \o <<15, 172, 231>>

\* C1: once a request has been classified, it is on the Direct path (sender =
\* the L1 sender, the input decoded as an inbox envelope, no receipt asked
\* for) exactly when the recipient is present and its digits, lower-cased,
\* are those of the inbox address; otherwise it is on the ContractEvent path
\* and the receipt has been asked for.  A request that waits for the receipt
\* or has answered 200 has been classified.
C1_Classifier ==
    \A r \in Reqs :
        LET l == locals[r]
            inbox == ~l.transaction.to.null
                     /\ ToLowerCase(l.transaction.to.s) = InboxDigitsLower
        IN  /\ (pc[r] = "getTransactionReceipt" \/ response[r].status = 200)
                   => l.branch # "none"
            /\ l.branch # "none" =>
                   /\ l.branch = "Direct" <=> inbox
                   /\ l.branch = "ContractEvent" <=> ~inbox
            /\ l.branch = "Direct" =>
                   /\ calls[r]["getTransactionReceipt"] = 0
                   /\ l.fromAddress = l.transaction.from
                   /\ LET dec == DecodeFacetEncodedTransaction(l.transaction.input)
                      IN  /\ l.fields.to = dec.to
                          /\ l.fields.value = dec.value
                          /\ l.fields.data = dec.data
                          /\ l.fields.gasLimit = dec.gasLimit
            /\ l.branch = "ContractEvent" =>
                   calls[r]["getTransactionReceipt"] = 1

\* C1 witness: a recipient spelled in lower case, unlike the constant, was
\* classified Direct and answered.
C1_Witness ==
    \E r \in Reqs :
        /\ locals[r].branch = "Direct"
        /\ locals[r].transaction.to = InboxLower
        /\ locals[r].transaction.to.s # FACET_INBOX_ADDRESS
        /\ response[r].status = 200

\* C2: a request whose txHash is missing, whose chainId is missing, or whose
\* chainId is a value other than 1 and 11155111, is answered 400; with a
\* txHash present and a chainId that is a non-zero number other than 1 and
\* 11155111 the error is "Invalid chainId".
C2_Validation ==
    \A r \in Reqs :
        Started(r) =>
            LET u == locals[r].url
                n == JsNumber(u.chainId)
                otherValue == n.nan \/ (n.n # 1 /\ n.n # 11155111)
            IN  /\ (~u.txHash.present \/ ~u.chainId.present \/ otherValue)
                       => /\ Done(r)
                          /\ response[r].status = 400
                          /\ ~response[r].hasHash
                          /\ calls[r] = [c \in Calls |-> 0]
                /\ (u.txHash.present /\ Len(u.txHash.s) > 0
                        /\ ~n.nan /\ n.n # 0 /\ otherValue)
                       => response[r].error = "Invalid chainId"

\* C2 witness: chainId=5 with a txHash was answered 400 "Invalid chainId".
C2_Witness ==
    \E r \in Reqs :
        /\ locals[r].url.chainId = Param(TRUE, "5")
        /\ locals[r].url.txHash.s \in KnownHashes
        /\ response[r].status = 400
        /\ response[r].error = "Invalid chainId"

\* C3: when the receipt of a transaction not addressed to the inbox has come
\* back: with no log of exactly one topic equal to the sentinel the answer is
\* 400 "No Facet event found in transaction"; otherwise the first such log in
\* receipt order is the one decoded (its address aliased, its data decoded).
C3_FacetEvent ==
    \A r \in Reqs :
        ReceiptObtained(r) =>
            LET l == locals[r]
                logs == l.transaction.logs
                matching == {i \in DOMAIN logs : MatchesSentinel(logs[i])}
            IN  /\ ~IsInboxRecipient(l.transaction.to)
                /\ matching = {} =>
                       /\ response[r].status = 400
                       /\ response[r].error = "No Facet event found in transaction"
                       /\ ~response[r].hasHash
                /\ matching # {} =>
                       LET first == CHOOSE i \in matching :
                                        \A j \in matching : i <= j
                       IN  /\ l.facetEvent = logs[first]
                           /\ l.fromAddress = ApplyL1ToL2Alias(logs[first].address)
                           /\ l.fields = DecodeFacetEvent(logs[first].data,
                                                          l.fctMintRate).fields
                           /\ response[r].hasHash =>
                                  response[r].facetTransactionHash.fromAddress
                                      = ApplyL1ToL2Alias(logs[first].address)
                           /\ response[r].error # "No Facet event found in transaction"

\* C3 witness: a receipt whose logs carry the sentinel only beside a second
\* topic, or no topic at all, was answered 400.
C3_Witness ==
    \E r \in Reqs :
        /\ ReceiptObtained(r)
        /\ Len(locals[r].transaction.logs) = 2
        /\ \E i \in DOMAIN locals[r].transaction.logs :
               Len(locals[r].transaction.logs[i].topics) = 2
        /\ response[r].status = 400

\* C4 (as claimed): when the matched log's payload after the tag byte does not
\* decode to a list of at least 6 elements, the answer is 400 without a hash.
C4_MalformedPayloadIs400 ==
    \A r \in Reqs :
        (ReceiptObtained(r) /\ FindFacetEvent(locals[r].transaction.logs) # 0) =>
            LET payload == locals[r].facetEvent.data
                decoded == FromRlp(SliceTag(payload))
            IN  (~decoded.ok \/ ~decoded.item.list \/ Len(decoded.item.items) < 6)
                    => response[r].status = 400 /\ ~response[r].hasHash

\* floor(a / b) for b > 0, from its definition.
FloorDiv(a, b) == CHOOSE q \in (0 - 100)..100 : b * q <= a /\ a < b * (q + 1)

\* C5: the block number handed to the mint-rate read is
\* N_tip - floor((T_tip - T_l1) / 12), with T_l1 the timestamp of the block
\* of the source transaction; with T_l1 = T_tip it is N_tip; the rate the
\* handler goes on with is the one of that block.
C5_TargetBlock ==
    \A r \in Reqs :
        calls[r]["readContract"] >= 1 =>
            LET l == locals[r]
                tip == l.latestL2Block
                tl1 == BlockTimestamp(l.l1TransactionHash)
                expected == tip.number - FloorDiv(tip.timestamp - tl1, 12)
            IN  /\ l.targetL2BlockNumber = expected
                /\ tl1 = tip.timestamp => l.targetL2BlockNumber = tip.number
                /\ l.branch # "none" =>
                       l.fctMintRate = RateAt(l.l1ChainId.n, expected)

\* C5 witness: a read issued for a transaction whose block is one second
\* younger than the L2 head: floor(-1 / 12) = -1 blocks back.
C5_Witness ==
    \E r \in Reqs :
        /\ calls[r]["readContract"] = 1
        /\ locals[r].latestL2Block.timestamp - locals[r].l1Timestamp = 0 - 1
        /\ locals[r].targetL2BlockNumber = locals[r].latestL2Block.number + 1

\* C6: within a request every upstream call is issued at most once; once an
\* upstream call has failed the request is over with an error response that
\* carries no facetTransactionHash, and no call is issued afterwards (no
\* retry of the failed call, no second mint-rate read).
C6_CallsAtMostOnce ==
    \A r \in Reqs :
        /\ \A c \in Calls : calls[r][c] <= 1
        /\ upstreamFailed[r] =>
               /\ Done(r)
               /\ response[r].status \in {404, 500}
               /\ response[r].status = 404 => locals[r].worker = "part_000"
               /\ response[r].error # ""
               /\ ~response[r].hasHash
C6_NoCallAfterFailure ==
    \A r \in Reqs :
        (upstreamFailed[r] \/ upstreamFailed'[r]) =>
            /\ \A c \in Calls : calls'[r][c] = calls[r][c]
            /\ upstreamFailed[r] => response'[r] = response[r]
C6_NoRetry == [](C6_CallsAtMostOnce) /\ [][C6_NoCallAfterFailure]_vars

\* C6 witness: the mint-rate read of a request for a contract transaction
\* failed: the receipt was never asked for.
C6_Witness ==
    \E r \in Reqs :
        /\ upstreamFailed[r]
        /\ calls[r]["readContract"] = 1
        /\ calls[r]["getTransactionReceipt"] = 0
        /\ locals[r].transaction.to = SomeContract
        /\ Done(r)

\* Element [1] of the list the matched log's payload decodes to.
EventDecoded(r) ==
    /\ ReceiptObtained(r)
    /\ locals[r].branch = "ContractEvent"
    /\ response[r].status = 200
ElementOne(r) == FromRlp(SliceTag(locals[r].facetEvent.data)).item.items[2]

\* C7 (as claimed): `to` is hashed as the empty byte string exactly when
\* element [1] has byte length <= 1, else as the element's bytes.
C7_ToAbsentUpToOneByte ==
    \A r \in Reqs :
        (EventDecoded(r) /\ ~ElementOne(r).list) =>
            LET e == ElementOne(r).bytes
                to == response[r].facetTransactionHash.to
            IN  /\ to = <<>> <=> Len(e) <= 1
                /\ Len(e) > 1 => to = e

\* C7 (amended): for a byte-string element [1], `to` is hashed as the empty
\* byte string exactly when the element is empty (never as the zero address);
\* every non-empty element, a 1-byte one included, is hashed as its bytes.
C7_ToAbsentIffEmpty ==
    \A r \in Reqs :
        (EventDecoded(r) /\ ~ElementOne(r).list) =>
            LET e == ElementOne(r).bytes
                to == response[r].facetTransactionHash.to
            IN  /\ to = <<>> <=> Len(e) = 0
                /\ Len(e) >= 1 => to = e
                /\ to # ZeroBytes(20)
                /\ locals[r].fields.to.undefined <=> Len(e) = 0

\* C7 witness: a payload whose element [1] is one byte was hashed with that
\* byte as `to`.
C7_Witness ==
    \E r \in Reqs :
        /\ EventDecoded(r)
        /\ ~ElementOne(r).list
        /\ Len(ElementOne(r).bytes) = 1
        /\ response[r].facetTransactionHash.to = ElementOne(r).bytes

ZeroCount(b) == Cardinality({i \in DOMAIN b : b[i] = 0})
IntrinsicCost(b) == 4 * ZeroCount(b) + 16 * (Len(b) - ZeroCount(b))

\* C8: the fctMintAmount in the hash is, on the ContractEvent path,
\* byteLength(matched log data, tag included) * 8 * MintRate, whatever the
\* bytes are; on the Direct path it is the input gas cost of
\* 0x46 || RLP([l2ChainId, to, value, gasLimit, data, mineBoost]) * MintRate;
\* MintRate is the rate of the target block.
C8_MintAmount ==
    \A r \in Reqs :
        (response[r].status = 200 /\ locals[r].worker = "index") =>
            LET l == locals[r]
                rate == RateAt(l.l1ChainId.n, l.targetL2BlockNumber)
                mint == response[r].facetTransactionHash.fctMintAmount
                dec == DecodeFacetEncodedTransaction(l.transaction.input)
            IN  /\ l.branch = "ContractEvent" =>
                       mint = Len(l.facetEvent.data) * 8 * rate
                /\ l.branch = "Direct" =>
                       mint = rate * IntrinsicCost(
                                  <<70>> \o ToRlp(ListItem(
                                      <<H(FacetChainIdHex(l.l1ChainId.n)),
                                        H(OrEmpty(dec.to)),
                                        H(NumberOrEmpty(dec.value)),
                                        H(NumberOrEmpty(dec.gasLimit)),
                                        H(dec.data),
                                        H(OrEmpty(dec.mineBoost))>>)))

\* C8 witness: a log payload holding zero bytes, whose intrinsic cost is not
\* 8 a byte, was charged 8 a byte.
C8_Witness ==
    \E r \in Reqs :
        /\ response[r].status = 200
        /\ locals[r].worker = "index"
        /\ locals[r].branch = "ContractEvent"
        /\ locals[r].facetEvent.data = PayloadZeros
        /\ IntrinsicCost(PayloadZeros) # 8 * Len(PayloadZeros)
        /\ response[r].facetTransactionHash.fctMintAmount
               = 8 * Len(PayloadZeros) * locals[r].fctMintRate

\* C9: two requests for the same source transaction, served at any two heads
\* of an L2 chain whose blocks are exactly 12 seconds apart, hand the same
\* block number to the mint-rate read, go on with the same rate and, when
\* both answer 200, return the same facetTransactionHash.
C9_HeadIndependent ==
    \A r, q \in Reqs :
        SameSource(r, q) =>
            /\ (calls[r]["readContract"] >= 1 /\ calls[q]["readContract"] >= 1)
                   => locals[r].targetL2BlockNumber = locals[q].targetL2BlockNumber
            /\ (locals[r].branch # "none" /\ locals[q].branch # "none")
                   => locals[r].fctMintRate = locals[q].fctMintRate
            /\ (response[r].status = 200 /\ response[q].status = 200)
                   => response[r].facetTransactionHash
                          = response[q].facetTransactionHash

\* C9 witness: both requests answered 200 after seeing different heads.
C9_Witness ==
    /\ SameSource(1, 2)
    /\ response[1].status = 200 /\ response[2].status = 200
    /\ locals[1].latestL2Block.number + 2 <= locals[2].latestL2Block.number

\* C10 (as claimed): the block number handed to the mint-rate read lies in
\* 0 .. N_tip.
C10_TargetInRange ==
    \A r \in Reqs :
        calls[r]["readContract"] >= 1 =>
            /\ 0 <= locals[r].targetL2BlockNumber
            /\ locals[r].targetL2BlockNumber <= locals[r].latestL2Block.number

====
